---- MODULE Spec2Model ----
(***************************************************************************)
(* A model of the hash-linked ledger served by src/src/main.rs.            *)
(*                                                                         *)
(* Strings are sequences of one-character strings, so that the record     *)
(* calculate_hash builds is the concatenation the code builds.  SHA-256    *)
(* is modelled as an ideal hash: the digest bytes stand for the message    *)
(* they were computed from (no two messages collide), and hex_encode       *)
(* renders every byte as two hexadecimal digits.  The wall clock is a      *)
(* counter of seconds; Utc::now().to_string() renders it as "SS UTC".      *)
(***************************************************************************)
EXTENDS Integers, Sequences, FiniteSets

\* ---- bounds of the model ----
NumProc == 2
MaxChain == 3
MaxClock == 1
MaxIndex == 2

Procs == 1..NumProc
NoHolder == 0

\* payloads a client submits in a well-formed body
BpmValues == {7, 60}

VARIABLES
    chain,        \* Blockchain.0, the Vec<Block> behind the mutex
    lock,         \* holder of the Mutex, NoHolder when free
    poisoned,     \* the Mutex is poisoned (a holder panicked)
    now,          \* the wall clock read by Utc::now()
    pc,           \* position of every request handler
    method,       \* method of the request a handler serves
    msg,          \* the decoded Message.bpm of a POST
    old_block,    \* the tail a POST read under the lock
    new_block,    \* the candidate a POST built
    valid,        \* result of is_block_valid in a POST
    resp,         \* the response a handler produced
    seen,         \* history: the chains that existed since the request began
    chainAtRead,  \* history: the chain when the POST read its tail
    nValid,       \* history: number of candidates that validated
    nCommit,      \* history: number of pushes
    snapCommits,  \* history: nCommit when a GET rendered its snapshot
    chunk,        \* the body a POST received
    stdout,       \* the blocks printed by println!
    acked,        \* history: the committed blocks whose POST has been answered
    ackedAtStart, \* history: acked when the request was routed
    reference,    \* is_block_valid checks: the reference block
    candidate,    \* is_block_valid checks: the candidate block
    verdict,      \* is_block_valid checks: the result, "none" before the call
    tampered,     \* is_block_valid checks: the field changed after hashing
    blockA,       \* calculate_hash checks: the first block
    blockB,       \* calculate_hash checks: the second block
    recordA,      \* calculate_hash checks: the record hashed for blockA
    recordB,      \* calculate_hash checks: the record hashed for blockB
    digestA,      \* calculate_hash checks: the digest of blockA, "none" before the call
    digestB       \* calculate_hash checks: the digest of blockB, "none" before the call

vars == <<chain, lock, poisoned, now, pc, method, msg, old_block, new_block,
          valid, resp, seen, chainAtRead, nValid, nCommit, snapCommits,
          chunk, stdout, acked, ackedAtStart,
          reference, candidate, verdict, tampered,
          blockA, blockB, recordA, recordB, digestA, digestB>>

progVars == <<chain, lock, poisoned, now, pc, method, msg, old_block, new_block,
              valid, resp, seen, chainAtRead, nValid, nCommit, snapCommits,
              chunk, stdout, acked, ackedAtStart>>

pureVars == <<reference, candidate, verdict, tampered>>

hashVars == <<blockA, blockB, recordA, recordB, digestA, digestB>>

\* ---- strings ----
DigitChar(d) ==
    CASE d = 0 -> "0" [] d = 1 -> "1" [] d = 2 -> "2" [] d = 3 -> "3"
      [] d = 4 -> "4" [] d = 5 -> "5" [] d = 6 -> "6" [] d = 7 -> "7"
      [] d = 8 -> "8" [] d = 9 -> "9"

RECURSIVE to_string(_)
to_string(n) ==
    IF n < 10 THEN <<DigitChar(n)>>
    ELSE to_string(n \div 10) \o <<DigitChar(n % 10)>>

utc_to_string(t) ==
    <<DigitChar((t \div 10) % 10), DigitChar(t % 10), " ", "U", "T", "C">>

\* the two lowercase hexadecimal digits of a byte
HexByte(c) ==
    CASE c = "0" -> <<"3", "0">> [] c = "1" -> <<"3", "1">>
      [] c = "2" -> <<"3", "2">> [] c = "3" -> <<"3", "3">>
      [] c = "4" -> <<"3", "4">> [] c = "5" -> <<"3", "5">>
      [] c = "6" -> <<"3", "6">> [] c = "7" -> <<"3", "7">>
      [] c = "8" -> <<"3", "8">> [] c = "9" -> <<"3", "9">>
      [] c = " " -> <<"2", "0">> [] c = "C" -> <<"4", "3">>
      [] c = "T" -> <<"5", "4">> [] c = "U" -> <<"5", "5">>
      [] c = "x" -> <<"7", "8">>

RECURSIVE hex_encode(_)
hex_encode(bytes) ==
    IF bytes = <<>> THEN <<>>
    ELSE HexByte(Head(bytes)) \o hex_encode(Tail(bytes))

Sha256(record) == record

\* ---- blocks ----
BlockDefault ==
    [index |-> 0, timestamp |-> <<>>, bpm |-> 0, hash |-> <<>>, prev_hash |-> <<>>]

\* a hasher that leaves the payload out of the record
calculate_hash_NoBpm(block) ==
    LET record == to_string(block.index) \o block.timestamp \o block.prev_hash
    IN  hex_encode(Sha256(record))

\* the record calculate_hash feeds to the hasher
hash_record(block) ==
    to_string(block.index) \o block.timestamp
    \o to_string(block.bpm) \o block.prev_hash

\* a hasher that also feeds the stored hash field to the digest
calculate_hash_WithHash(block) ==
    hex_encode(Sha256(hash_record(block) \o block.hash))

calculate_hash(block) ==
    LET record == hash_record(block)
    IN  hex_encode(Sha256(record))

\* a constructor that forgets to store the payload
generate_block_NoBpm(old, bpm, t) ==
    LET b == [BlockDefault EXCEPT !.index = old.index + 1,
                                  !.timestamp = utc_to_string(t),
                                  !.prev_hash = old.hash]
    IN  [b EXCEPT !.hash = calculate_hash(b)]

\* a constructor that copies the tail's index without adding one
generate_block_SameIndex(old, bpm, t) ==
    LET b == [BlockDefault EXCEPT !.index = old.index,
                                  !.timestamp = utc_to_string(t),
                                  !.bpm = bpm,
                                  !.prev_hash = old.hash]
    IN  [b EXCEPT !.hash = calculate_hash(b)]

generate_block(old, bpm, t) ==
    LET b == [BlockDefault EXCEPT !.index = old.index + 1,
                                  !.timestamp = utc_to_string(t),
                                  !.bpm = bpm,
                                  !.prev_hash = old.hash]
    IN  [b EXCEPT !.hash = calculate_hash(b)]

\* an initialization that numbers the genesis block 1
init_blockchain_IndexOne(t) ==
    LET b == [BlockDefault EXCEPT !.index = 1,
                                  !.timestamp = utc_to_string(t),
                                  !.bpm = 0,
                                  !.prev_hash = <<>>]
    IN  << [b EXCEPT !.hash = calculate_hash(b)] >>

init_blockchain(t) ==
    LET b == [BlockDefault EXCEPT !.index = 0,
                                  !.timestamp = utc_to_string(t),
                                  !.bpm = 0,
                                  !.prev_hash = <<>>]
    IN  << [b EXCEPT !.hash = calculate_hash(b)] >>

\* a validation that skips the prev_hash check
is_block_valid_NoPrevHash(new, old) ==
    IF old.index + 1 # new.index THEN FALSE
    ELSE IF calculate_hash(new) # new.hash THEN FALSE
    ELSE TRUE

is_block_valid(new, old) ==
    IF old.index + 1 # new.index THEN FALSE
    ELSE IF old.hash # new.prev_hash THEN FALSE
    ELSE IF calculate_hash(new) # new.hash THEN FALSE
    ELSE TRUE

\* ---- the chain behind the mutex ----
\* a lock that never makes a caller wait
MutexAvailable_Always(holder) == TRUE

MutexAvailable(holder) == holder = NoHolder

\* a tail read that takes the first block
LastBlock_First(c) == c[1]

LastBlock(c) == c[Len(c)]

\* a guard that is forgotten instead of dropped
MutexGuardDrop_Forget(holder) == holder

\* the MutexGuard goes out of scope: the mutex is free again
MutexGuardDrop(holder) == NoHolder

\* a commit that inserts at the front
Push_Front(c, b) == <<b>> \o c

\* a commit that overwrites the tail
Push_Overwrite(c, b) == [c EXCEPT ![Len(c)] = b]

\* a commit that stores nothing
Push_Nothing(c, b) == c

Push(c, b) == Append(c, b)

\* ---- responses ----
ToJsonBlock(b) ==
    << <<"index", b.index>>, <<"timestamp", b.timestamp>>, <<"bpm", b.bpm>>,
       <<"hash", b.hash>>, <<"prev_hash", b.prev_hash>> >>

\* a rendering that leaves out the last block
ToJsonChain_DropLast(c) == [i \in 1..(Len(c) - 1) |-> ToJsonBlock(c[i])]

ToJsonChain(c) == [i \in 1..Len(c) |-> ToJsonBlock(c[i])]

respond_with_json(json) ==
    [status |-> 200, content_type |-> "application/json", body |-> json]

\* a fallback arm that forgets to set the status
NotFoundResponse_Ok ==
    [status |-> 200, content_type |-> "", body |-> "Not Found"]

NotFoundResponse ==
    [status |-> 404, content_type |-> "", body |-> "Not Found"]

NoResp == [status |-> 0, content_type |-> "", body |-> ""]

\* ---- request bodies ----
Chunks ==
    [kind : {"bpm"}, value : BpmValues]
    \cup { [kind |-> "bpm", value |-> -1],
           [kind |-> "nofield", value |-> 0],
           [kind |-> "garbage", value |-> 0] }

\* no body has been received
NoChunk == [kind |-> "none", value |-> 0]

\* a decoder that falls back to the default Message on a bad body
from_slice_OrDefault(bytes) ==
    IF bytes.kind = "bpm" /\ bytes.value >= 0
    THEN [ok |-> TRUE, bpm |-> bytes.value]
    ELSE [ok |-> TRUE, bpm |-> 0]

\* serde_json::from_slice::<Message>: Ok only for an object with a u64 bpm
from_slice(bytes) ==
    IF bytes.kind = "bpm" /\ bytes.value >= 0
    THEN [ok |-> TRUE, bpm |-> bytes.value]
    ELSE [ok |-> FALSE, bpm |-> 0]

\* POST requests that may still push a block
PostsPending ==
    Cardinality({p \in Procs :
        pc[p] \in {"body", "post_lock", "post_gen", "post_validate", "post_commit"}})

\* the chains a request in progress has lived through, after the chain became c
SeenAfter(c) ==
    [q \in Procs |-> IF pc[q] \in {"get_lock", "get_render"}
                     THEN seen[q] \cup {c} ELSE seen[q]]

\* ---- the program ----
InitLedger ==
    /\ now \in 0..MaxClock
    /\ chain = init_blockchain(now)
    /\ lock = NoHolder
    /\ poisoned = FALSE
    /\ pc = [p \in Procs |-> "idle"]
    /\ method = [p \in Procs |-> "none"]
    /\ msg = [p \in Procs |-> 0]
    /\ old_block = [p \in Procs |-> BlockDefault]
    /\ new_block = [p \in Procs |-> BlockDefault]
    /\ valid = [p \in Procs |-> FALSE]
    /\ resp = [p \in Procs |-> NoResp]
    /\ seen = [p \in Procs |-> {}]
    /\ chainAtRead = [p \in Procs |-> <<>>]
    /\ nValid = 0
    /\ nCommit = 0
    /\ snapCommits = [p \in Procs |-> 0]
    /\ chunk = [p \in Procs |-> NoChunk]
    /\ stdout = chain
    /\ acked = {}
    /\ ackedAtStart = [p \in Procs |-> {}]

InitHashIdle ==
    /\ blockA = BlockDefault
    /\ blockB = BlockDefault
    /\ recordA = <<>>
    /\ recordB = <<>>
    /\ digestA = "none"
    /\ digestB = "none"

Init ==
    /\ InitLedger
    /\ InitHashIdle
    /\ reference = BlockDefault
    /\ candidate = BlockDefault
    /\ verdict = "none"
    /\ tampered = "none"

\* router: Method::GET
RouteGet(p) ==
    /\ pc[p] = "idle"
    /\ pc' = [pc EXCEPT ![p] = "get_lock"]
    /\ method' = [method EXCEPT ![p] = "GET"]
    /\ ackedAtStart' = [ackedAtStart EXCEPT ![p] = acked]
    /\ seen' = [seen EXCEPT ![p] = {chain}]
    /\ UNCHANGED <<chain, lock, poisoned, now, msg, old_block, new_block, valid,
                   resp, chainAtRead, nValid, nCommit, snapCommits, pureVars, hashVars,
                   chunk, stdout, acked>>

\* router: Method::POST; the body has not arrived yet
RoutePost(p) ==
    /\ pc[p] = "idle"
    /\ Len(chain) + PostsPending < MaxChain
    /\ pc' = [pc EXCEPT ![p] = "body"]
    /\ method' = [method EXCEPT ![p] = "POST"]
    /\ ackedAtStart' = [ackedAtStart EXCEPT ![p] = acked]
    /\ UNCHANGED <<chain, lock, poisoned, now, msg, old_block, new_block, valid,
                   resp, seen, chainAtRead, nValid, nCommit, snapCommits, pureVars, hashVars,
                   chunk, stdout, acked>>

\* router: any other method
RouteOther(p) ==
    /\ pc[p] = "idle"
    /\ pc' = [pc EXCEPT ![p] = "done"]
    /\ method' = [method EXCEPT ![p] = "OTHER"]
    /\ resp' = [resp EXCEPT ![p] = NotFoundResponse]
    /\ UNCHANGED <<chain, lock, poisoned, now, msg, old_block, new_block, valid,
                   seen, chainAtRead, nValid, nCommit, snapCommits, pureVars, hashVars,
                   chunk, stdout, acked, ackedAtStart>>

\* handle_get_blockchain: block_chain.lock().unwrap()
GetLock(p) ==
    /\ pc[p] = "get_lock"
    /\ MutexAvailable(lock)
    /\ IF poisoned
       THEN /\ pc' = [pc EXCEPT ![p] = "panicked"]
            /\ lock' = lock
       ELSE /\ pc' = [pc EXCEPT ![p] = "get_render"]
            /\ lock' = p
    /\ UNCHANGED <<chain, poisoned, now, method, msg, old_block, new_block, valid,
                   resp, seen, chainAtRead, nValid, nCommit, snapCommits, pureVars, hashVars,
                   chunk, stdout, acked, ackedAtStart>>

\* handle_get_blockchain: respond_with_json(&chain), then the guard is dropped
GetRespond(p) ==
    /\ pc[p] = "get_render"
    /\ resp' = [resp EXCEPT ![p] = respond_with_json(ToJsonChain(chain))]
    /\ snapCommits' = [snapCommits EXCEPT ![p] = nCommit]
    /\ lock' = MutexGuardDrop(lock)
    /\ pc' = [pc EXCEPT ![p] = "done"]
    /\ UNCHANGED <<chain, poisoned, now, method, msg, old_block, new_block, valid,
                   seen, chainAtRead, nValid, nCommit, pureVars, hashVars,
                   chunk, stdout, acked, ackedAtStart>>

\* handle_post_blockchain: concat2 completes and the closure decodes the body
PostBody(p, bytes) ==
    /\ pc[p] = "body"
    /\ chunk' = [chunk EXCEPT ![p] = bytes]
    /\ LET r == from_slice(bytes)
       IN  IF r.ok
           THEN /\ msg' = [msg EXCEPT ![p] = r.bpm]
                /\ pc' = [pc EXCEPT ![p] = "post_lock"]
           ELSE /\ msg' = msg
                /\ pc' = [pc EXCEPT ![p] = "panicked"]
    /\ UNCHANGED <<chain, lock, poisoned, now, method, old_block, new_block, valid,
                   resp, seen, chainAtRead, nValid, nCommit, snapCommits, pureVars, hashVars,
                   stdout, acked, ackedAtStart>>

\* handle_post_blockchain: block_chain.lock().unwrap()
PostLock(p) ==
    /\ pc[p] = "post_lock"
    /\ MutexAvailable(lock)
    /\ IF poisoned
       THEN /\ pc' = [pc EXCEPT ![p] = "panicked"]
            /\ lock' = lock
       ELSE /\ pc' = [pc EXCEPT ![p] = "post_gen"]
            /\ lock' = p
    /\ UNCHANGED <<chain, poisoned, now, method, msg, old_block, new_block, valid,
                   resp, seen, chainAtRead, nValid, nCommit, snapCommits, pureVars, hashVars,
                   chunk, stdout, acked, ackedAtStart>>

\* handle_post_blockchain: read the tail and generate_block from it
PostGenerate(p) ==
    /\ pc[p] = "post_gen"
    /\ IF Len(chain) = 0
       THEN /\ pc' = [pc EXCEPT ![p] = "panicked"]
            /\ poisoned' = TRUE
            /\ lock' = MutexGuardDrop(lock)
            /\ UNCHANGED <<old_block, new_block, chainAtRead>>
       ELSE /\ old_block' = [old_block EXCEPT ![p] = LastBlock(chain)]
            /\ new_block' = [new_block EXCEPT ![p] =
                                generate_block(LastBlock(chain), msg[p], now)]
            /\ chainAtRead' = [chainAtRead EXCEPT ![p] = chain]
            /\ pc' = [pc EXCEPT ![p] = "post_validate"]
            /\ UNCHANGED <<poisoned, lock>>
    /\ UNCHANGED <<chain, now, method, msg, valid, resp, seen, nValid, nCommit,
                   snapCommits, pureVars, hashVars,
                   chunk, stdout, acked, ackedAtStart>>

\* handle_post_blockchain: is_block_valid(&new_block, old_block)
PostValidate(p) ==
    /\ pc[p] = "post_validate"
    /\ LET v == is_block_valid(new_block[p], old_block[p])
       IN  /\ valid' = [valid EXCEPT ![p] = v]
           /\ nValid' = IF v THEN nValid + 1 ELSE nValid
    /\ pc' = [pc EXCEPT ![p] = "post_commit"]
    /\ UNCHANGED <<chain, lock, poisoned, now, method, msg, old_block, new_block,
                   resp, seen, chainAtRead, nCommit, snapCommits, pureVars, hashVars,
                   chunk, stdout, acked, ackedAtStart>>

\* handle_post_blockchain: push the candidate when it validated
PostCommit(p) ==
    /\ pc[p] = "post_commit"
    /\ IF valid[p]
       THEN /\ stdout' = Append(stdout, new_block[p])
            /\ chain' = Push(chain, new_block[p])
            /\ nCommit' = nCommit + 1
            /\ seen' = SeenAfter(Push(chain, new_block[p]))
       ELSE UNCHANGED <<stdout, chain, nCommit, seen>>
    /\ pc' = [pc EXCEPT ![p] = "post_respond"]
    /\ UNCHANGED <<lock, poisoned, now, method, msg, old_block, new_block, valid,
                   resp, chainAtRead, nValid, snapCommits, pureVars, hashVars,
                   chunk, acked, ackedAtStart>>

\* handle_post_blockchain: respond_with_json(&new_block), then the guard is dropped
PostRespond(p) ==
    /\ pc[p] = "post_respond"
    /\ resp' = [resp EXCEPT ![p] = respond_with_json(ToJsonBlock(new_block[p]))]
    /\ acked' = IF valid[p] THEN acked \cup {new_block[p]} ELSE acked
    /\ lock' = MutexGuardDrop(lock)
    /\ pc' = [pc EXCEPT ![p] = "done"]
    /\ UNCHANGED <<chain, poisoned, now, method, msg, old_block, new_block, valid,
                   seen, chainAtRead, nValid, nCommit, snapCommits, pureVars, hashVars,
                   chunk, stdout, ackedAtStart>>

\* the response has been sent (or the handler panicked); the handler serves a new request
Finish(p) ==
    /\ pc[p] \in {"done", "panicked"}
    /\ pc' = [pc EXCEPT ![p] = "idle"]
    /\ method' = [method EXCEPT ![p] = "none"]
    /\ msg' = [msg EXCEPT ![p] = 0]
    /\ old_block' = [old_block EXCEPT ![p] = BlockDefault]
    /\ new_block' = [new_block EXCEPT ![p] = BlockDefault]
    /\ valid' = [valid EXCEPT ![p] = FALSE]
    /\ resp' = [resp EXCEPT ![p] = NoResp]
    /\ seen' = [seen EXCEPT ![p] = {}]
    /\ chainAtRead' = [chainAtRead EXCEPT ![p] = <<>>]
    /\ snapCommits' = [snapCommits EXCEPT ![p] = 0]
    /\ chunk' = [chunk EXCEPT ![p] = NoChunk]
    /\ ackedAtStart' = [ackedAtStart EXCEPT ![p] = {}]
    /\ UNCHANGED <<chain, lock, poisoned, now, nValid, nCommit, pureVars, hashVars,
                   stdout, acked>>

\* the wall clock advances
Tick ==
    /\ now < MaxClock
    /\ now' = now + 1
    /\ UNCHANGED <<chain, lock, poisoned, pc, method, msg, old_block, new_block,
                   valid, resp, seen, chainAtRead, nValid, nCommit, snapCommits,
                   pureVars, hashVars,
                   chunk, stdout, acked, ackedAtStart>>

Next ==
    \/ \E p \in Procs : RouteGet(p)
    \/ \E p \in Procs : RoutePost(p)
    \/ \E p \in Procs : RouteOther(p)
    \/ \E p \in Procs : GetLock(p)
    \/ \E p \in Procs : GetRespond(p)
    \/ \E p \in Procs, bytes \in Chunks : PostBody(p, bytes)
    \/ \E p \in Procs : PostLock(p)
    \/ \E p \in Procs : PostGenerate(p)
    \/ \E p \in Procs : PostValidate(p)
    \/ \E p \in Procs : PostCommit(p)
    \/ \E p \in Procs : PostRespond(p)
    \/ \E p \in Procs : Finish(p)
    \/ Tick

Spec == Init /\ [][Next]_vars

\* lock(): the handler blocks until it gets the mutex
AcquireLock(p) == GetLock(p) \/ PostLock(p)

\* the steps a handler takes while it holds the mutex
CriticalStep(p) ==
    \/ GetRespond(p)
    \/ PostGenerate(p)
    \/ PostValidate(p)
    \/ PostCommit(p)
    \/ PostRespond(p)

\* a handler that can run does run, and a handler blocked in lock() gets the
\* mutex if it is free again and again
Fairness ==
    \A p \in Procs :
        /\ SF_vars(AcquireLock(p))
        /\ WF_vars(CriticalStep(p))

SpecFair == Init /\ [][Next]_vars /\ Fairness

\* ---- reading a rendered response ----
JsonField(obj, key) == obj[CHOOSE i \in 1..Len(obj) : obj[i][1] = key][2]

\* the rendered object carries exactly the five fields of the block
RendersBlock(obj, b) ==
    /\ Len(obj) = 5
    /\ JsonField(obj, "index") = b.index
    /\ JsonField(obj, "timestamp") = b.timestamp
    /\ JsonField(obj, "bpm") = b.bpm
    /\ JsonField(obj, "hash") = b.hash
    /\ JsonField(obj, "prev_hash") = b.prev_hash

RendersChain(body, c) ==
    /\ Len(body) = Len(c)
    /\ \A i \in 1..Len(c) : RendersBlock(body[i], c[i])

IsPrefix(s, t) ==
    /\ Len(s) <= Len(t)
    /\ \A i \in 1..Len(s) : s[i] = t[i]

\* ---- C1 ----
\* C1: in every reachable state every adjacent pair (old, new) of the chain has
\* new.index = old.index + 1, new.prev_hash = old.hash and
\* calculate_hash(new) = new.hash.
Thm_C1_AdjacentPairs ==
    \A i \in 1..(Len(chain) - 1) :
        /\ chain[i + 1].index = chain[i].index + 1
        /\ chain[i + 1].prev_hash = chain[i].hash
        /\ calculate_hash(chain[i + 1]) = chain[i + 1].hash

Wit_C1 ==
    /\ Len(chain) >= 3
    /\ chain[3].prev_hash = chain[2].hash

\* ---- C2 ----
\* C2: with concurrent POSTs under every interleaving, whenever no append is
\* between its validation and its commit, the chain has 1 + (number of
\* candidates that validated against the tail they observed) blocks, no two
\* blocks share an index, the indices have no gap, and prev_hash links every
\* block to the one before it.
Thm_C2_ConcurrentAppend ==
    (\A p \in Procs : pc[p] # "post_commit") =>
        /\ Len(chain) = 1 + nValid
        /\ \A i, j \in 1..Len(chain) : i # j => chain[i].index # chain[j].index
        /\ {chain[i].index : i \in 1..Len(chain)} = 0..(Len(chain) - 1)
        /\ \A i \in 2..Len(chain) : chain[i].prev_hash = chain[i - 1].hash

Wit_C2 ==
    \E p, q \in Procs :
        /\ p # q
        /\ pc[p] = "post_lock"
        /\ pc[q] = "post_respond"
        /\ valid[q]
        /\ nValid >= 1
        /\ Len(chain) = 1 + nValid

\* ---- C3 ----
\* C3: a snapshot rendered after N committed appends on a fresh ledger holds
\* exactly N+1 blocks, the block at position i has index i (0..N in order),
\* and every non-genesis block's prev_hash is the hash of the block before it.
Thm_C3_MonotonicAppend ==
    \A p \in Procs :
        (pc[p] = "done" /\ method[p] = "GET") =>
            LET body == resp[p].body
            IN  /\ Len(body) = snapCommits[p] + 1
                /\ \A i \in 1..Len(body) : JsonField(body[i], "index") = i - 1
                /\ \A i \in 2..Len(body) :
                      JsonField(body[i], "prev_hash") = JsonField(body[i - 1], "hash")

Wit_C3 ==
    \E p \in Procs :
        /\ pc[p] = "done"
        /\ method[p] = "GET"
        /\ snapCommits[p] = 2
        /\ Len(resp[p].body) = 3

\* ---- C4 ----
\* C4: a freshly initialized ledger (nothing committed yet) holds exactly one
\* block, with index 0, empty prev_hash and hash = calculate_hash of the block.
Thm_C4_Genesis ==
    (nCommit = 0) =>
        /\ Len(chain) = 1
        /\ chain[1].index = 0
        /\ chain[1].prev_hash = <<>>
        /\ chain[1].hash = calculate_hash(chain[1])

Wit_C4 ==
    /\ nCommit = 0
    /\ \A p \in Procs : pc[p] = "idle"
    /\ Len(chain) = 1
    /\ chain[1].bpm = 0
    /\ chain[1].hash # <<>>

\* ---- C5 ----
\* C5: across every step the chain before is a prefix of the chain after (no
\* committed block is removed, reordered or changed, genesis stays first), the
\* chain is never empty, and the tail read at len-1 never goes out of bounds.
Thm_C5_AppendOnly ==
    [][/\ Len(chain) >= 1
       /\ Len(chain') >= 1
       /\ IsPrefix(chain, chain')
       /\ chain'[1] = chain[1]
       /\ ~poisoned']_vars

Wit_C5 ==
    \E p \in Procs :
        /\ pc[p] = "post_validate"
        /\ Len(chain) >= 2
        /\ old_block[p] = chain[Len(chain)]

\* ---- C6 ----
\* C6: an append changes the ledger in one of two ways only: a valid candidate
\* makes the chain exactly one longer with the candidate as the new tail, an
\* invalid one leaves length and tail as they were; before the commit step
\* the chain is what the append read.
Thm_C6_CommitOrDiscard ==
    \A p \in Procs :
        /\ pc[p] \in {"post_validate", "post_commit"} => chain = chainAtRead[p]
        /\ pc[p] = "post_respond" =>
              IF valid[p]
              THEN /\ Len(chain) = Len(chainAtRead[p]) + 1
                   /\ chain = Append(chainAtRead[p], new_block[p])
              ELSE chain = chainAtRead[p]

Wit_C6 ==
    \E p \in Procs :
        /\ pc[p] = "post_respond"
        /\ valid[p]
        /\ chain[Len(chain)] = new_block[p]
        /\ Len(chainAtRead[p]) = 2

\* ---- C7 ----
\* C7: every append answers with the candidate it built (index = observed
\* tail's index + 1, prev_hash = observed tail's hash, payload = the submitted
\* value), committed or not; a committed candidate equals the block stored in
\* the chain at that index.
Thm_C7_ReturnsCandidate ==
    \A p \in Procs :
        (pc[p] = "done" /\ method[p] = "POST") =>
            LET body == resp[p].body
            IN  /\ resp[p].status = 200
                /\ RendersBlock(body, new_block[p])
                /\ JsonField(body, "index") = old_block[p].index + 1
                /\ JsonField(body, "prev_hash") = old_block[p].hash
                /\ JsonField(body, "bpm") = msg[p]
                /\ valid[p] =>
                      /\ JsonField(body, "index") + 1 <= Len(chain)
                      /\ RendersBlock(body, chain[JsonField(body, "index") + 1])

Wit_C7 ==
    \E p \in Procs :
        /\ pc[p] = "done"
        /\ method[p] = "POST"
        /\ valid[p]
        /\ msg[p] = 60
        /\ JsonField(resp[p].body, "index") = 1
        /\ Len(chain) = 3

\* ---- C8 ----
\* C8: the snapshot a GET returns is the whole committed chain as it stood at
\* one instant between the request and the response (nothing omitted or
\* duplicated, order kept), and holds no block that is not committed.
Thm_C8_Snapshot ==
    \A p \in Procs :
        (pc[p] = "done" /\ method[p] = "GET") =>
            /\ \E c \in seen[p] : RendersChain(resp[p].body, c)
            /\ Len(resp[p].body) <= Len(chain)
            /\ \A i \in 1..Len(resp[p].body) : RendersBlock(resp[p].body[i], chain[i])

Wit_C8 ==
    \E p \in Procs :
        /\ pc[p] = "done"
        /\ method[p] = "GET"
        /\ Cardinality(seen[p]) = 2
        /\ Len(resp[p].body) = 2
        /\ Len(chain) = 3

\* ---- is_block_valid on arbitrary blocks ----
TimestampValues == {utc_to_string(t) : t \in 0..MaxClock}

HashValues == {<<>>, <<"x">>, init_blockchain(0)[1].hash}

ReferenceBlocks ==
    [index : 0..MaxIndex, timestamp : {utc_to_string(0)}, bpm : {0},
     hash : HashValues, prev_hash : {<<>>}]

CandidateBlocks ==
    [index : 0..(MaxIndex + 1), timestamp : TimestampValues, bpm : BpmValues,
     hash : HashValues, prev_hash : HashValues]

BoolName(b) == IF b THEN "true" ELSE "false"

InitValid ==
    /\ InitLedger
    /\ InitHashIdle
    /\ reference \in ReferenceBlocks
    /\ candidate \in CandidateBlocks
    /\ verdict = "none"
    /\ tampered = "none"

\* the candidate is built by generate_block from the reference
CallGenerate(bpm, t) ==
    /\ verdict = "none"
    /\ tampered = "none"
    /\ candidate' = generate_block(reference, bpm, t)
    /\ UNCHANGED <<reference, verdict, tampered, progVars, hashVars>>

\* the candidate's hash is computed over its present fields
CallCalculateHash ==
    /\ verdict = "none"
    /\ tampered = "none"
    /\ candidate' = [candidate EXCEPT !.hash = calculate_hash(candidate)]
    /\ UNCHANGED <<reference, verdict, tampered, progVars, hashVars>>

CallIsBlockValid ==
    /\ verdict = "none"
    /\ verdict' = BoolName(is_block_valid(candidate, reference))
    /\ UNCHANGED <<reference, candidate, tampered, progVars, hashVars>>

\* one field of a candidate that validated is changed, the hash is not recomputed
Tamper(field, value) ==
    /\ verdict = "true"
    /\ tampered = "none"
    /\ candidate[field] # value
    /\ candidate' = [candidate EXCEPT ![field] = value]
    /\ tampered' = field
    /\ verdict' = "none"
    /\ UNCHANGED <<reference, progVars, hashVars>>

NextValid ==
    \/ \E bpm \in BpmValues, t \in 0..MaxClock : CallGenerate(bpm, t)
    \/ CallCalculateHash
    \/ CallIsBlockValid
    \/ \E v \in 0..(MaxIndex + 1) : Tamper("index", v)
    \/ \E v \in TimestampValues \cup {<<"x">>, <<>>} : Tamper("timestamp", v)
    \/ \E v \in BpmValues \cup {0} : Tamper("bpm", v)
    \/ \E v \in HashValues : Tamper("prev_hash", v)
    \/ \E v \in HashValues : Tamper("hash", v)

SpecValid == InitValid /\ [][NextValid]_vars

\* ---- C9 ----
\* C9: is_block_valid(candidate, reference) is true only if all three checks
\* hold (reference.index + 1 = candidate.index, reference.hash =
\* candidate.prev_hash, calculate_hash(candidate) = candidate.hash); it is
\* false whenever the index check fails, whatever the hashes, and false
\* whenever the prev_hash check fails, whatever the index.
Thm_C9_Validation ==
    (verdict # "none") =>
        /\ verdict = "true" =>
              /\ reference.index + 1 = candidate.index
              /\ reference.hash = candidate.prev_hash
              /\ calculate_hash(candidate) = candidate.hash
        /\ reference.index + 1 # candidate.index => verdict = "false"
        /\ reference.hash # candidate.prev_hash => verdict = "false"

Wit_C9 ==
    /\ verdict = "false"
    /\ reference.index + 1 # candidate.index
    /\ reference.hash = candidate.prev_hash
    /\ calculate_hash(candidate) = candidate.hash

\* ---- C10 ----
\* C10: when is_block_valid holds of (candidate, reference) and one field of
\* the candidate (index, timestamp, bpm, prev_hash or hash) is then changed to
\* a different value without recomputing hash, is_block_valid returns false.
Thm_C10_Tampering ==
    (tampered # "none" /\ verdict # "none") => verdict = "false"

Wit_C10 ==
    /\ tampered = "bpm"
    /\ verdict = "false"
    /\ reference.index + 1 = candidate.index
    /\ reference.hash = candidate.prev_hash

\* ---- calculate_hash on arbitrary blocks ----
HashIndexValues == {1, 10}

HashTimestampValues ==
    {<<"0">>, utc_to_string(MaxClock), utc_to_string(MaxClock) \o <<"7">>}

HashBpmValues == {0, 70}

HashLinkValues == {<<>>, <<"0">>}

HashBlocks ==
    [index : HashIndexValues, timestamp : HashTimestampValues, bpm : HashBpmValues,
     hash : {<<>>, <<"x">>}, prev_hash : HashLinkValues]

InitHash ==
    /\ InitLedger
    /\ reference = BlockDefault
    /\ candidate = BlockDefault
    /\ verdict = "none"
    /\ tampered = "none"
    /\ blockA \in HashBlocks
    /\ blockB \in HashBlocks
    /\ recordA = <<>>
    /\ recordB = <<>>
    /\ digestA = "none"
    /\ digestB = "none"

CallHashA ==
    /\ digestA = "none"
    /\ recordA' = hash_record(blockA)
    /\ digestA' = calculate_hash(blockA)
    /\ UNCHANGED <<blockA, blockB, recordB, digestB, pureVars, progVars>>

CallHashB ==
    /\ digestB = "none"
    /\ recordB' = hash_record(blockB)
    /\ digestB' = calculate_hash(blockB)
    /\ UNCHANGED <<blockA, blockB, recordA, digestA, pureVars, progVars>>

NextHash ==
    \/ CallHashA
    \/ CallHashB

SpecHash == InitHash /\ [][NextHash]_vars

HashedBoth == digestA # "none" /\ digestB # "none"

\* the fields of (index, timestamp, bpm, prev_hash) in which two blocks differ
DiffFields(a, b) ==
    {f \in {"index", "timestamp", "bpm", "prev_hash"} : a[f] # b[f]}

\* ---- C11 ----
\* C11: calculate_hash depends on index, timestamp, bpm and prev_hash only:
\* two blocks equal in these four fields get the same digest whatever their
\* hash fields are, and two blocks that differ in exactly one of the four get
\* different digests.
Thm_C11_HashOfFourFields ==
    HashedBoth =>
        /\ DiffFields(blockA, blockB) = {} => digestA = digestB
        /\ Cardinality(DiffFields(blockA, blockB)) = 1 => digestA # digestB

Wit_C11 ==
    /\ HashedBoth
    /\ DiffFields(blockA, blockB) = {"timestamp"}
    /\ blockA.hash # blockB.hash
    /\ digestA # digestB

\* ---- C20 ----
\* C20: two blocks whose (index, timestamp, bpm, prev_hash) tuples differ in
\* any way, in one field or in several, never give the same hashed record.
Cex_C20_RecordIdentifiesTuple ==
    HashedBoth =>
        (DiffFields(blockA, blockB) # {} => recordA # recordB)

\* a body that is a JSON object with an unsigned integer bpm
IsMessage(bytes) == bytes.kind = "bpm" /\ bytes.value \in Nat

\* ---- C12 ----
\* C12: a POST whose body does not decode to an integer payload never reaches
\* the append: the step that receives the body leaves the chain unchanged,
\* and from then on the handler is stopped, does not hold the lock and has
\* read no tail and built no candidate.
Thm_C12_MalformedBodyRejected ==
    [][\A p \in Procs :
          (chunk'[p] # NoChunk /\ ~IsMessage(chunk'[p])) =>
              /\ pc'[p] = "panicked"
              /\ lock' # p
              /\ new_block'[p] = BlockDefault
              /\ old_block'[p] = BlockDefault
              /\ chainAtRead'[p] = <<>>
              /\ chunk[p] = NoChunk => (chain' = chain /\ lock' = lock)]_vars

Wit_C12 ==
    \E p \in Procs :
        /\ chunk[p].kind = "garbage"
        /\ pc[p] = "panicked"
        /\ lock # p
        /\ Len(chain) >= 2

\* ---- C13 ----
\* C13: no request-handling path terminates abnormally: every GET, POST
\* (well-formed or malformed body) and other-method request ends with a
\* response, never with a panic.
Cex_C13_NoPanic ==
    \A p \in Procs : pc[p] # "panicked"

\* ---- C14 ----
\* C14: no I/O is performed while the ledger lock is held: a step that writes
\* to standard output is taken only with the mutex free.
Cex_C14_NoIoUnderLock ==
    [][stdout' # stdout => lock = NoHolder]_vars

WaitsForLock(p) == pc[p] \in {"get_lock", "post_lock"}

CriticalSection == {"get_render", "post_gen", "post_validate", "post_commit", "post_respond"}

\* ---- C16 ----
\* C16: the validation inside an append never fails: every append that has
\* passed its validation step found its candidate valid, under any
\* interleaving, and once past the commit step the candidate is in the chain
\* at the position of its index.
Thm_C16_ValidationNeverFails ==
    \A p \in Procs :
        /\ (pc[p] \in {"post_commit", "post_respond"}
              \/ (pc[p] = "done" /\ method[p] = "POST")) => valid[p]
        /\ (pc[p] = "post_respond" \/ (pc[p] = "done" /\ method[p] = "POST")) =>
              /\ new_block[p].index + 1 <= Len(chain)
              /\ chain[new_block[p].index + 1] = new_block[p]

Wit_C16 ==
    \E p, q \in Procs :
        /\ p # q
        /\ pc[q] = "done" /\ method[q] = "POST" /\ valid[q]
        /\ pc[p] = "post_respond" /\ valid[p]
        /\ Len(chain) = 3

\* ---- C17 ----
\* C17: at most one handler is inside the critical section at any time and it
\* is the holder of the lock; an append about to commit finds the chain, and so
\* its tail, exactly as it read it.
Thm_C17_MutualExclusion ==
    /\ Cardinality({p \in Procs : pc[p] \in CriticalSection}) <= 1
    /\ \A p \in Procs : pc[p] \in CriticalSection => lock = p
    /\ \A p \in Procs :
          pc[p] = "post_commit" =>
              /\ chain[Len(chain)] = old_block[p]
              /\ Len(chain) = Len(chainAtRead[p])

Wit_C17 ==
    \E p, q \in Procs :
        /\ p # q
        /\ pc[p] = "post_commit"
        /\ pc[q] = "get_lock"
        /\ lock = p
        /\ Len(chain) = 2

\* ---- C18 ----
\* C18: only a POST changes the ledger: the chain changes only in the commit
\* step of a POST, no step of a GET or of a request with another method
\* changes it, and a request with another method is answered 404 Not Found.
Thm_C18_OnlyPostWrites ==
    [][/\ chain' # chain =>
             \E p \in Procs : /\ method[p] = "POST"
                              /\ pc[p] = "post_commit"
                              /\ pc'[p] = "post_respond"
       /\ \A p \in Procs :
             (pc'[p] # pc[p] /\ method'[p] \in {"GET", "OTHER"}) => chain' = chain
       /\ \A p \in Procs :
             method'[p] = "OTHER" =>
                 /\ pc'[p] = "done"
                 /\ resp'[p].status = 404
                 /\ resp'[p].body = "Not Found"]_vars

Wit_C18 ==
    \E p, q \in Procs :
        /\ method[p] = "OTHER" /\ pc[p] = "done" /\ resp[p].status = 404
        /\ method[q] = "GET" /\ pc[q] = "done"
        /\ Len(chain) = 2

\* ---- C19 ----
\* C19: once a POST has answered for a committed block, a GET routed
\* afterwards returns a snapshot with that block at the position of its
\* index, and a POST routed afterwards gets a strictly larger index.
Thm_C19_AppendsVisible ==
    \A p \in Procs :
        /\ (pc[p] = "done" /\ method[p] = "GET") =>
              \A b \in ackedAtStart[p] :
                  /\ b.index + 1 <= Len(resp[p].body)
                  /\ RendersBlock(resp[p].body[b.index + 1], b)
        /\ (pc[p] = "done" /\ method[p] = "POST") =>
              \A b \in ackedAtStart[p] : JsonField(resp[p].body, "index") > b.index

Wit_C19 ==
    \E p, q \in Procs :
        /\ pc[p] = "done" /\ method[p] = "POST"
        /\ Cardinality(ackedAtStart[p]) = 1
        /\ JsonField(resp[p].body, "index") = 2
        /\ pc[q] = "done" /\ method[q] = "GET"
        /\ Cardinality(ackedAtStart[q]) = 2

TypeOK ==
    /\ lock \in Procs \cup {NoHolder}
    /\ Len(chain) <= MaxChain
====
